---- MODULE Spec2Model ----
(***************************************************************************)
(* Render server of reelty-challenge (apps/render/server/index.ts): the    *)
(* in-memory job table renderProgress, the POST /api/render handler and    *)
(* the renderer it awaits, the SSE publisher GET /api/render-progress/:id  *)
(* and GET /api/download/:id; and the snap functions of the editor         *)
(* (apps/app/lib/timeline-utils.ts): getAllSnapPoints and                  *)
(* snapToClipBoundaries.                                                   *)
(***************************************************************************)
EXTENDS Integers, Sequences, FiniteSets, TLC

\* ---------------------------------------------------------------- bounds
\* POST /api/render and GET /api/render-progress/:id requests received in a run
MaxRequests == 2
\* events of records that are not done, written to all streams in a run
MaxEvents == 2

\* clips in a clip list given to the snap functions
MaxClips == 2
\* largest startPosition of such a clip, in clip units
MaxStart == 2

\* SAMPLE_VIDEOS.length: the clips the editor is mounted with
MaxSamples == 2
\* pointer moves and clip operations (remove, add, reorder) handled in a run
MaxEdits == 3

JobIds == 1..MaxRequests
Streams == 1..MaxRequests

\* Fractions the renderer reports to onProgress, in thousandths
\* (375 is 0.375, 1000 is 1.0).
Fractions == {375, 1000}

\* Request bodies of POST /api/render.  hasClips = FALSE is a body without a
\* clips array; textOverlay is <<>> for null.
Bodies ==
  { [hasClips |-> TRUE,  clips |-> <<5, 5>>,
     textOverlay |-> <<[startPosition |-> 0, duration |-> 1]>>],
    [hasClips |-> TRUE,  clips |-> <<5, 5>>,
     textOverlay |-> <<[startPosition |-> 1, duration |-> 2]>>],
    [hasClips |-> FALSE, clips |-> <<>>, textOverlay |-> <<>>] }

\* ---------------------------------------------------------------- state
VARIABLES
  renderProgress,  \* Map<string, RenderProgress>: a function on the ids set so far
  pc,              \* position of each POST /api/render handler ("crashed": an
                   \* error left the handler uncaught)
  body,            \* req.body of a handler that has not read it yet: <<>> or <<body>>
  resp,            \* response sent to the submitter: <<>> or <<[status, renderId]>>
  called,          \* TRUE once onProgress has run for the job
  rendersDir,      \* video-<id>.mp4 in rendersDir: "none", "partial" or "complete"
  sub,             \* the GET /api/render-progress/:id requests
  last,            \* the operation that produced the current state
  clips,           \* Clip[] given to the snap functions
  position,        \* position given to snapToClipBoundaries
  snapThreshold,   \* snapThreshold given to snapToClipBoundaries
  snapPoints,      \* <<>> or <<getAllSnapPoints(clips)>>
  snapped,         \* <<>> or <<snapToClipBoundaries(position, clips, snapThreshold)>>
  resnapped,       \* <<>> or <<snapToClipBoundaries(snapped[1], clips, snapThreshold)>>
  textStart,       \* textStart given to snapTextEdges
  textDuration,    \* textDuration given to snapTextEdges
  snappedEdges,    \* <<>> or <<snapTextEdges(textStart, textDuration, clips, snapThreshold)>>
  activeClips,     \* the editor's clips in timeline order: [id, startPosition, duration]
  removedClips,    \* the clips taken off the timeline
  isTextActive,    \* the overlay is shown, can be dragged and is given to RenderButton
  textStartPosition, \* the overlay's start
  textClipCount,   \* the overlay's duration
  gesture,         \* DraggableText: isDragging, isResizing and the props the
                   \* listeners registered at the start of the gesture hold
  edits,           \* pointer moves and clip operations handled so far
  lastEdit,        \* the editor operation that produced the current state
  props,           \* VideoEditorProps: clips (durations in quarter seconds) and
                   \* textOverlay (<<>> is null)
  rendered,        \* <<>> or <<what VideoEditorComposition returned or threw>>
  textProps,       \* DraggableText props: startPosition, duration, clipWidth, gap
  geometry,        \* <<>> or <<xPosition, width and minWidth of DraggableText>>
  renderButton     \* RenderButton: its useState values, the request of
                   \* handleRender in flight and its EventSource

serverVars == <<renderProgress, pc, body, resp, called, rendersDir, sub, last>>
snapVars == <<clips, position, snapThreshold, snapPoints, snapped, resnapped>>
edgeVars == <<textStart, textDuration, snappedEdges>>
uiVars == <<activeClips, removedClips, isTextActive, textStartPosition, textClipCount,
            gesture, edits, lastEdit>>
compVars == <<props, rendered>>
geomVars == <<textProps, geometry>>
clientVars == <<renderButton>>
editorVars == <<snapVars, edgeVars, uiVars, compVars, geomVars, clientVars>>

\* what the actions of one part leave unchanged
notSnapVars == <<serverVars, edgeVars, uiVars, compVars, geomVars, clientVars>>
notEdgeVars == <<serverVars, snapVars, uiVars, compVars, geomVars, clientVars>>
notUiVars == <<serverVars, snapVars, edgeVars, compVars, geomVars, clientVars>>
notCompVars == <<serverVars, snapVars, edgeVars, uiVars, geomVars, clientVars>>
notGeomVars == <<serverVars, snapVars, edgeVars, uiVars, compVars, clientVars>>
notClientVars == <<snapVars, edgeVars, uiVars, compVars, geomVars>>
vars == <<serverVars, editorVars>>

\* ---------------------------------------------------------------- helpers
\* Variant: one record shared by all ids in place of a record per id
MapSet_Shared(m, k, v) == [x \in (DOMAIN m) \cup {k} |-> v]

\* Map.prototype.set
MapSet(m, k, v) == [x \in (DOMAIN m) \cup {k} |-> IF x = k THEN v ELSE m[x]]

\* Map.prototype.get, as a sequence: <<>> is undefined
MapGet(m, k) == IF k \in DOMAIN m THEN <<m[k]>> ELSE <<>>

\* renderProgress.has(j), and a record with done: true
Known(j) == j \in DOMAIN renderProgress
Terminal(j) == Known(j) /\ renderProgress[j].done

\* Variant: Math.floor in place of Math.round
RoundPercent_Floor(f) == f \div 10

\* Variant: the fraction is scaled by 1000 in place of 100
RoundPercent_PerMille(f) == f

\* Math.round(progress * 100) for progress = f / 1000: the nearest integer,
\* a half rounded up (the fractions used make progress * 100 exact)
RoundPercent(f) == (f + 5) \div 10

\* line 58
InitialRecord == [progress |-> 0, done |-> FALSE]

\* Variant: onProgress marks the job done when it reaches 100
ProgressRecord_DoneAtFull(f) ==
  [progress |-> RoundPercent(f), done |-> (RoundPercent(f) = 100)]

\* lines 100-103
ProgressRecord(f) == [progress |-> RoundPercent(f), done |-> FALSE]

\* Variant: line 107 marks the job done without setting progress to 100
SuccessRecord_ZeroProgress == [progress |-> 0, done |-> TRUE]

\* Variant: line 107 keeps done: false
SuccessRecord_NotDone == [progress |-> 100, done |-> FALSE]

\* line 107
SuccessRecord == [progress |-> 100, done |-> TRUE]

\* lines 109-113
FailureRecord == [progress |-> 0, done |-> TRUE, error |-> "Render failed"]

\* Variant: an id generator that can repeat an id
randomUUID_Reused(m) == JobIds

\* randomUUID(): an id no earlier call returned (ids are handed out in order)
randomUUID(m) == {j \in JobIds : j \notin DOMAIN m /\ \A i \in 1..(j - 1) : i \in DOMAIN m}

\* clips.reduce(...) on a body without clips throws a TypeError
DecodeThrows(b) == ~b.hasClips

\* Request validation the handler performs before allocating the job: none.
Rejected(b) == FALSE

\* fs.existsSync(filePath) in the download handler
DownloadServes(id) == rendersDir[id] # "none"

\* What a failed renderMedia can leave at outputLocation
FileAfterFailure(f) == {f, "none"}

\* The requests received so far, and the events written so far
Requests ==
  Cardinality({j \in JobIds : Known(j)}) + Cardinality({s \in Streams : sub[s].opened})

RECURSIVE Written(_)
Written(n) == IF n = 0 THEN 0 ELSE Len(sub[n].events) + Written(n - 1)

\* The synchronous prefix of a handler (lines 57-72) runs without interleaving.
NoSync == \A j \in JobIds : pc[j] # "responded"

\* last: the operation, the job or stream it ran for, the record it replaced
\* (for the writes to renderProgress), its outcome and, for onProgress, the
\* fraction it was called with.  Steps that neither write a record nor answer
\* a download leave Step; a tick that finds no record leaves "tick".
Op(o, i, p, r) == [op |-> o, id |-> i, pre |-> p, out |-> r, arg |-> 0]
Step == Op("step", 0, <<>>, "")

NoSub == [id |-> 0, interval |-> FALSE, ended |-> FALSE, connected |-> FALSE,
          opened |-> FALSE, events |-> <<>>]

\* ---------------------------------------------------------------- timeline-utils.ts
\* Positions and durations are counted in fortieths of a clip unit.  The
\* positions and clip boundaries used are multiples of an eighth of a unit,
\* which doubles hold exactly, so the additions, subtractions and
\* comparisons below are the ones the doubles of the code produce (0.3
\* lies strictly between two eighths, as its double does).
Unit == 8 * 5

\* Math.abs
Abs(x) == IF x < 0 THEN -x ELSE x

\* line 48: snapThreshold = 0.3
DefaultThreshold == (3 * Unit) \div 10

\* Variant: an empty clip list has no snap points
DefaultTimeline_Empty == <<>>

\* line 20: [0, 1]
DefaultTimeline == <<0, Unit>>

\* lines 26-31: the start and the end of every clip, in the order of the list
RECURSIVE ClipPoints(_)
ClipPoints(cs) ==
  IF cs = <<>> THEN <<>>
  ELSE LET clip == cs[Len(cs)] IN
       ClipPoints(SubSeq(cs, 1, Len(cs) - 1))
         \o <<clip.startPosition, clip.startPosition + clip.duration>>

\* Variant: duplicates are kept
Dedupe_Keep(seq) == seq

\* line 39: [...new Set(snapPoints)], the first occurrence of every value
RECURSIVE Dedupe(_)
Dedupe(seq) ==
  IF seq = <<>> THEN <<>>
  ELSE LET front == Dedupe(SubSeq(seq, 1, Len(seq) - 1))
           x == seq[Len(seq)]
       IN IF \E i \in 1..Len(front) : front[i] = x THEN front ELSE Append(front, x)

\* line 39: sort((a, b) => a - b), by insertion
RECURSIVE SortAsc(_)
SortAsc(seq) ==
  IF seq = <<>> THEN <<>>
  ELSE LET front == SortAsc(SubSeq(seq, 1, Len(seq) - 1))
           x == seq[Len(seq)]
           k == Cardinality({i \in 1..Len(front) : front[i] - x <= 0})
       IN SubSeq(front, 1, k) \o <<x>> \o SubSeq(front, k + 1, Len(front))

\* lines 17-40
getAllSnapPoints(cs) ==
  IF Len(cs) = 0 THEN DefaultTimeline
  ELSE LET lastClip == cs[Len(cs)]
           timelineEnd == lastClip.startPosition + lastClip.duration
       IN SortAsc(Dedupe(<<0>> \o ClipPoints(cs) \o <<timelineEnd>>))

\* Variant: on equal distances the reduce takes the later point
Nearer_OrEqual(curr, prev, p) == Abs(curr - p) <= Abs(prev - p)

\* Variant: the reduce keeps the farther point
Nearer_Farther(curr, prev, p) == Abs(curr - p) > Abs(prev - p)

\* line 56: Math.abs(curr - position) < Math.abs(prev - position)
Nearer(curr, prev, p) == Abs(curr - p) < Abs(prev - p)

\* lines 55-57: reduce without an initial value over the first n points
RECURSIVE Reduce(_, _, _)
Reduce(pts, n, p) ==
  IF n = 1 THEN pts[1]
  ELSE LET prev == Reduce(pts, n - 1, p)
           curr == pts[n]
       IN IF Nearer(curr, prev, p) THEN curr ELSE prev

\* Variant: the closest point is returned at any distance
snapToClipBoundaries_Always(p, cs, t) ==
  LET pts == getAllSnapPoints(cs) IN
    IF Len(pts) = 0 THEN p ELSE Reduce(pts, Len(pts), p)

\* lines 45-61
snapToClipBoundaries(p, cs, t) ==
  LET pts == getAllSnapPoints(cs) IN
    IF Len(pts) = 0 THEN p
    ELSE LET closest == Reduce(pts, Len(pts), p) IN
         IF Abs(closest - p) <= t THEN closest ELSE p

\* Math.max
Max2(a, b) == IF a < b THEN b ELSE a

\* Math.min
Min2(a, b) == IF b < a THEN b ELSE a

\* line 98: the floor 0.1 of snappedDuration
MinDuration == Unit \div 10

\* Variant: no floor on the duration and none on the start
snapTextEdges_NoFloor(s, d, cs, t) ==
  [snappedStart |-> snapToClipBoundaries(s, cs, t),
   snappedDuration |-> snapToClipBoundaries(s + d, cs, t) - snapToClipBoundaries(s, cs, t)]

\* Variant: the duration is measured from the start floored at 0
snapTextEdges_ClampFirst(s, d, cs, t) ==
  LET start == Max2(0, snapToClipBoundaries(s, cs, t)) IN
    [snappedStart |-> start,
     snappedDuration |-> Max2(MinDuration, snapToClipBoundaries(s + d, cs, t) - start)]

\* Variant: only the start is snapped
snapTextEdges_StartOnly(s, d, cs, t) ==
  LET start == snapToClipBoundaries(s, cs, t) IN
    [snappedStart |-> Max2(0, start),
     snappedDuration |-> Max2(MinDuration, (s + d) - start)]

\* lines 66-105
snapTextEdges(s, d, cs, t) ==
  LET textEnd == s + d
      pts == getAllSnapPoints(cs)
  IN IF Len(pts) = 0 THEN [snappedStart |-> s, snappedDuration |-> d]
     ELSE LET closestStart == Reduce(pts, Len(pts), s)
              closestEnd == Reduce(pts, Len(pts), textEnd)
              snappedStart == IF Abs(closestStart - s) <= t THEN closestStart ELSE s
              snappedEnd == IF Abs(closestEnd - textEnd) <= t THEN closestEnd ELSE textEnd
              snappedDuration == Max2(MinDuration, snappedEnd - snappedStart)
          IN [snappedStart |-> Max2(0, snappedStart), snappedDuration |-> snappedDuration]

\* render-button.tsx lines 257-263: n active clips as Clip[], the clip at
\* index i with startPosition i and duration 1
getClipsAsClipArray(n) == [i \in 1..n |-> [startPosition |-> (i - 1) * Unit, duration |-> Unit]]

\* Clips given to the snap functions: startPosition a whole number of units,
\* duration half a unit or a unit; the lists need not be ordered.
ClipValues ==
  [startPosition : {k * Unit : k \in 0..MaxStart}, duration : {Unit \div 2, Unit}]
ClipLists == UNION {[1..n -> ClipValues] : n \in 0..MaxClips}

\* Positions, every eighth of a unit from half a unit before 0 to a unit
\* past the largest clip end
Positions == {k * (Unit \div 8) : k \in (-4)..((MaxStart + 2) * 8)}

\* Thresholds: 0, the default 0.3, 0.5 and 1
Thresholds == {0, DefaultThreshold, Unit \div 2, Unit}

\* the duration in seconds of a sample video
SampleSeconds == 5

\* draggable-text.tsx lines 36-42: no gesture in progress
NoGesture == [isDragging |-> FALSE, isResizing |-> "null",
              startPosition |-> 0, duration |-> 0, totalClips |-> 0]

\* deltaX / (clipWidth + gap) of a pointer move: every quarter of a unit up
\* to the length of the sample timeline, either way
Deltas == {k * (Unit \div 4) : k \in (-(4 * MaxSamples))..(4 * MaxSamples)}

\* Clip lists given to snapTextEdges: those above and the editor's
EdgeClipLists == ClipLists \cup {getClipsAsClipArray(n) : n \in 0..(MaxClips + 1)}

\* Starts of a text range: every eighth of a unit from half a unit before 0
\* to the largest clip end
EdgeStarts == {k * (Unit \div 8) : k \in (-4)..((MaxStart + 1) * 8)}

\* Durations of a text range: every quarter of a unit from -0.25 to 1.5
EdgeDurations == {k * (Unit \div 4) : k \in (-1)..6}

\* Thresholds given to snapTextEdges: 0, the default 0.3 and 1
EdgeThresholds == {0, DefaultThreshold, Unit}

\* ---------------------------------------------------------------- Init
ServerInit ==
  /\ renderProgress = <<>>
  /\ pc = [j \in JobIds |-> "idle"]
  /\ body = [j \in JobIds |-> <<>>]
  /\ resp = [j \in JobIds |-> <<>>]
  /\ called = [j \in JobIds |-> FALSE]
  /\ rendersDir = [j \in JobIds |-> "none"]
  /\ sub = [s \in Streams |-> NoSub]
  /\ last = Op("init", 0, <<>>, "")

\* the editor has called no snap function
SnapIdle ==
  /\ clips = <<>>
  /\ position = 0
  /\ snapThreshold = DefaultThreshold
  /\ snapPoints = <<>>
  /\ snapped = <<>>
  /\ resnapped = <<>>

EdgesIdle ==
  /\ textStart = 0
  /\ textDuration = 0
  /\ snappedEdges = <<>>

\* render-button.tsx lines 190-202: the editor as it is mounted
UiInit ==
  /\ activeClips = [i \in 1..MaxSamples |->
                      [id |-> i, startPosition |-> i - 1, duration |-> SampleSeconds]]
  /\ removedClips = <<>>
  /\ isTextActive = FALSE
  /\ textStartPosition = 0
  /\ textClipCount = Unit
  /\ gesture = NoGesture
  /\ edits = 0
  /\ lastEdit = [op |-> "mount", id |-> 0]

\* comp.tsx lines 185-188: defaultProps, nothing rendered
CompIdle ==
  /\ props = [clips |-> <<>>, textOverlay |-> <<>>]
  /\ rendered = <<>>

\* DraggableText has not been rendered
GeomIdle ==
  /\ textProps = [startPosition |-> 0, duration |-> Unit, clipWidth |-> 0, gap |-> 0]
  /\ geometry = <<>>

\* render-button.tsx lines 24-28: the useState values; no request sent, no
\* EventSource
ClientIdle ==
  renderButton = [isRendering |-> FALSE, error |-> FALSE, success |-> FALSE,
                  progress |-> 0, isDownloading |-> FALSE,
                  phase |-> "idle", body |-> <<>>, renderId |-> 0,
                  connections |-> 0, delivered |-> 0, lastMessage |-> <<>>,
                  link |-> 0]

Init ==
  /\ ServerInit
  /\ SnapIdle
  /\ EdgesIdle
  /\ UiInit
  /\ CompIdle
  /\ GeomIdle
  /\ ClientIdle

\* ---------------------------------------------------------------- POST /api/render
\* lines 57-60: allocate the id, store the initial record, answer the submitter
Submit(j, b) ==
  /\ NoSync
  /\ j \in randomUUID(renderProgress)
  /\ ~Rejected(b)
  /\ Requests < MaxRequests
  /\ renderProgress' = MapSet(renderProgress, j, InitialRecord)
  /\ resp' = [resp EXCEPT ![j] = <<[status |-> 200, renderId |-> j]>>]
  /\ body' = [body EXCEPT ![j] = <<b>>]
  /\ pc' = [pc EXCEPT ![j] = "responded"]
  /\ last' = Op("submit", j, MapGet(renderProgress, j), "200")
  /\ UNCHANGED <<called, rendersDir, sub>>
  /\ UNCHANGED editorVars

\* Variant: the catch block keeps the recorded progress
Catch_KeepProgress(j, stage) ==
  /\ renderProgress' = MapSet(renderProgress, j,
                              [FailureRecord EXCEPT !.progress = renderProgress[j].progress])
  /\ pc' = [pc EXCEPT ![j] = "failed"]
  /\ last' = Op("fail", j, MapGet(renderProgress, j), stage)

\* catch block, lines 108-114
Catch(j, stage) ==
  /\ renderProgress' = MapSet(renderProgress, j, FailureRecord)
  /\ pc' = [pc EXCEPT ![j] = "failed"]
  /\ last' = Op("fail", j, MapGet(renderProgress, j), stage)

\* Variant: the body is read outside the try block
Decode_Uncaught(j) ==
  /\ pc[j] = "responded"
  /\ IF DecodeThrows(body[j][1])
       THEN pc' = [pc EXCEPT ![j] = "crashed"]
       ELSE pc' = [pc EXCEPT ![j] = "bundling"]
  /\ last' = Step
  /\ body' = [body EXCEPT ![j] = <<>>]
  /\ UNCHANGED <<renderProgress, resp, called, rendersDir, sub>>
  /\ UNCHANGED editorVars

\* lines 62-72: read the body, compute the duration, call bundle()
Decode(j) ==
  /\ pc[j] = "responded"
  /\ IF DecodeThrows(body[j][1])
       THEN Catch(j, "decode")
       ELSE /\ pc' = [pc EXCEPT ![j] = "bundling"]
            /\ last' = Step
            /\ UNCHANGED renderProgress
  /\ body' = [body EXCEPT ![j] = <<>>]
  /\ UNCHANGED <<resp, called, rendersDir, sub>>
  /\ UNCHANGED editorVars

\* line 72 resolves, line 76 calls selectComposition()
BundleResolves(j) ==
  /\ NoSync
  /\ pc[j] = "bundling"
  /\ pc' = [pc EXCEPT ![j] = "selecting"]
  /\ last' = Step
  /\ UNCHANGED <<renderProgress, body, resp, called, rendersDir, sub>>
  /\ UNCHANGED editorVars

\* line 76 resolves, lines 82-87 call renderMedia()
SelectResolves(j) ==
  /\ NoSync
  /\ pc[j] = "selecting"
  /\ pc' = [pc EXCEPT ![j] = "rendering"]
  /\ last' = Step
  /\ UNCHANGED <<renderProgress, body, resp, called, rendersDir, sub>>
  /\ UNCHANGED editorVars

\* lines 99-104: the renderer calls onProgress while renderMedia is pending
OnProgress(j, f) ==
  /\ NoSync
  /\ pc[j] = "rendering"
  /\ renderProgress' = MapSet(renderProgress, j, ProgressRecord(f))
  /\ called' = [called EXCEPT ![j] = TRUE]
  /\ last' = [Op("progress", j, MapGet(renderProgress, j), "") EXCEPT !.arg = f]
  /\ UNCHANGED <<pc, body, resp, rendersDir, sub>>
  /\ UNCHANGED editorVars

\* lines 87-90: the renderer starts writing outputLocation
WriteOutput(j) ==
  /\ NoSync
  /\ pc[j] = "rendering"
  /\ rendersDir[j] = "none"
  /\ rendersDir' = [rendersDir EXCEPT ![j] = "partial"]
  /\ last' = Step
  /\ UNCHANGED <<renderProgress, pc, body, resp, called, sub>>
  /\ UNCHANGED editorVars

\* Variant: renderMedia is not awaited, line 107 runs while it is pending
RenderResolves_NoAwait(j) ==
  /\ NoSync
  /\ pc[j] = "rendering"
  /\ ~Terminal(j)
  /\ renderProgress' = MapSet(renderProgress, j, SuccessRecord)
  /\ last' = Op("success", j, <<>>, "")
  /\ UNCHANGED <<pc, body, resp, called, rendersDir, sub>>
  /\ UNCHANGED editorVars

\* renderMedia resolves, line 107
RenderResolves(j) ==
  /\ NoSync
  /\ pc[j] = "rendering"
  /\ renderProgress' = MapSet(renderProgress, j, SuccessRecord)
  /\ rendersDir' = [rendersDir EXCEPT ![j] = "complete"]
  /\ pc' = [pc EXCEPT ![j] = "succeeded"]
  /\ last' = Op("success", j, <<>>, "")
  /\ UNCHANGED <<body, resp, called, sub>>
  /\ UNCHANGED editorVars

\* Variant: a rejection leaves the handler without reaching the catch block
AwaitRejects_Uncaught(j) ==
  /\ NoSync
  /\ pc[j] \in {"bundling", "selecting", "rendering"}
  /\ pc' = [pc EXCEPT ![j] = "crashed"]
  /\ last' = Step
  /\ UNCHANGED <<renderProgress, body, resp, called, rendersDir, sub>>
  /\ UNCHANGED editorVars

\* bundle, selectComposition or renderMedia rejects: catch block
AwaitRejects(j) ==
  /\ NoSync
  /\ pc[j] \in {"bundling", "selecting", "rendering"}
  /\ Catch(j, pc[j])
  /\ \E f \in FileAfterFailure(rendersDir[j]) :
        rendersDir' = [rendersDir EXCEPT ![j] = f]
  /\ UNCHANGED <<body, resp, called, sub>>
  /\ UNCHANGED editorVars

\* ---------------------------------------------------------------- GET /api/render-progress/:id
\* lines 117-124: set the headers and start the interval
Subscribe(s, id) ==
  /\ NoSync
  /\ ~sub[s].opened
  /\ \A t \in 1..(s - 1) : sub[t].opened
  /\ Requests < MaxRequests
  /\ sub' = [sub EXCEPT ![s] = [id |-> id, interval |-> TRUE, ended |-> FALSE,
                                connected |-> TRUE, opened |-> TRUE,
                                events |-> <<>>]]
  /\ last' = Step
  /\ UNCHANGED <<renderProgress, pc, body, resp, called, rendersDir>>
  /\ UNCHANGED editorVars

\* Variant: the callback ends the response when the id is not in the table
Tick_EndsUnknown(s) ==
  /\ NoSync
  /\ sub[s].interval
  /\ LET data == MapGet(renderProgress, sub[s].id) IN
       IF data = <<>>
         THEN /\ last' = Op("tick", s, <<>>, "idle")
              /\ sub' = [sub EXCEPT ![s].interval = FALSE, ![s].ended = TRUE]
         ELSE /\ Written(MaxRequests) < MaxEvents \/ data[1].done
              /\ sub' = [sub EXCEPT ![s].events = Append(@, data[1]),
                                    ![s].interval = ~data[1].done,
                                    ![s].ended = data[1].done]
              /\ last' = Step
  /\ UNCHANGED <<renderProgress, pc, body, resp, called, rendersDir>>
  /\ UNCHANGED editorVars

\* Variant: the callback never clears the interval nor ends the response
Tick_NoClear(s) ==
  /\ NoSync
  /\ sub[s].interval
  /\ LET data == MapGet(renderProgress, sub[s].id) IN
       /\ data # <<>>
       /\ Written(MaxRequests) < MaxEvents + 2
       /\ sub' = [sub EXCEPT ![s].events = Append(@, data[1])]
       /\ last' = Step
  /\ UNCHANGED <<renderProgress, pc, body, resp, called, rendersDir>>
  /\ UNCHANGED editorVars

\* lines 124-134: one run of the interval callback
Tick(s) ==
  /\ NoSync
  /\ sub[s].interval
  /\ LET data == MapGet(renderProgress, sub[s].id) IN
       IF data = <<>>
         THEN /\ last' = Op("tick", s, <<>>, "idle")
              /\ UNCHANGED sub
         ELSE /\ Written(MaxRequests) < MaxEvents \/ data[1].done
              /\ sub' = [sub EXCEPT ![s].events = Append(@, data[1]),
                                    ![s].interval = ~data[1].done,
                                    ![s].ended = data[1].done]
              /\ last' = Step
  /\ UNCHANGED <<renderProgress, pc, body, resp, called, rendersDir>>
  /\ UNCHANGED editorVars

\* the client goes away; the handler registers no close listener
Disconnect(s) ==
  /\ NoSync
  /\ sub[s].opened
  /\ sub[s].connected
  /\ ~sub[s].ended
  /\ sub' = [sub EXCEPT ![s].connected = FALSE]
  /\ last' = Step
  /\ UNCHANGED <<renderProgress, pc, body, resp, called, rendersDir>>
  /\ UNCHANGED editorVars

\* ---------------------------------------------------------------- GET /api/download/:id
\* Variant: the download handler removes the record of the job it serves
Download_Evicts(id) ==
  /\ NoSync
  /\ last' = Op("download", id, <<>>,
                IF DownloadServes(id) THEN rendersDir[id] ELSE "404")
  /\ renderProgress' = [x \in (DOMAIN renderProgress) \ {id} |-> renderProgress[x]]
  /\ UNCHANGED <<pc, body, resp, called, rendersDir, sub>>
  /\ UNCHANGED editorVars

\* lines 138-148
Download(id) ==
  /\ NoSync
  /\ last' = Op("download", id, <<>>,
                IF DownloadServes(id) THEN rendersDir[id] ELSE "404")
  /\ UNCHANGED <<renderProgress, pc, body, resp, called, rendersDir, sub>>
  /\ UNCHANGED editorVars

\* ---------------------------------------------------------------- specification
Next ==
  \/ \E j \in JobIds, b \in Bodies : Submit(j, b)
  \/ \E j \in JobIds : Decode(j)
  \/ \E j \in JobIds : BundleResolves(j)
  \/ \E j \in JobIds : SelectResolves(j)
  \/ \E j \in JobIds, f \in Fractions : OnProgress(j, f)
  \/ \E j \in JobIds : WriteOutput(j)
  \/ \E j \in JobIds : RenderResolves(j)
  \/ \E j \in JobIds : AwaitRejects(j)
  \/ \E s \in Streams, id \in JobIds : Subscribe(s, id)
  \/ \E s \in Streams : Tick(s)
  \/ \E s \in Streams : Disconnect(s)
  \/ \E id \in JobIds : Download(id)

Spec == Init /\ [][Next]_vars

\* ---------------------------------------------------------------- snap functions
\* the server is idle and the editor holds a clip list, a position and a
\* threshold
SnapInit ==
  /\ ServerInit
  /\ clips \in ClipLists
  /\ position \in Positions
  /\ snapThreshold \in Thresholds
  /\ snapPoints = <<>>
  /\ snapped = <<>>
  /\ resnapped = <<>>
  /\ EdgesIdle
  /\ UiInit
  /\ CompIdle
  /\ GeomIdle
  /\ ClientIdle

\* getAllSnapPoints(clips)
GetAllSnapPoints ==
  /\ snapPoints = <<>>
  /\ snapPoints' = <<getAllSnapPoints(clips)>>
  /\ UNCHANGED <<notSnapVars, clips, position, snapThreshold, snapped, resnapped>>

\* snapToClipBoundaries(position, clips, snapThreshold)
SnapToClipBoundaries ==
  /\ snapped = <<>>
  /\ snapped' = <<snapToClipBoundaries(position, clips, snapThreshold)>>
  /\ UNCHANGED <<notSnapVars, clips, position, snapThreshold, snapPoints, resnapped>>

\* snapToClipBoundaries applied to the position it returned
Resnap ==
  /\ snapped # <<>>
  /\ resnapped = <<>>
  /\ resnapped' = <<snapToClipBoundaries(snapped[1], clips, snapThreshold)>>
  /\ UNCHANGED <<notSnapVars, clips, position, snapThreshold, snapPoints, snapped>>

SnapNext ==
  \/ GetAllSnapPoints
  \/ SnapToClipBoundaries
  \/ Resnap

SnapSpec == SnapInit /\ [][SnapNext]_vars

\* ---------------------------------------------------------------- snapTextEdges
\* a text range on the grid with any of the clip lists and thresholds
GridRange ==
  /\ clips \in EdgeClipLists
  /\ snapThreshold \in EdgeThresholds
  /\ textStart \in EdgeStarts
  /\ textDuration \in EdgeDurations

\* start 0.8 and duration 1.4 over three clips of the editor, threshold 0.3.
\* These two numbers are not held exactly by doubles; every comparison
\* made for them has a margin of a tenth of a unit or more (distances 0.2
\* against the threshold 0.3 and against the next distance 0.8), so the
\* doubles decide them as the exact values do.
ScenarioRange ==
  /\ clips = getClipsAsClipArray(3)
  /\ snapThreshold = DefaultThreshold
  /\ textStart = (4 * Unit) \div 5
  /\ textDuration = (7 * Unit) \div 5

EdgesInit ==
  /\ ServerInit
  /\ GridRange \/ ScenarioRange
  /\ position = 0
  /\ snapPoints = <<>>
  /\ snapped = <<>>
  /\ resnapped = <<>>
  /\ snappedEdges = <<>>
  /\ UiInit
  /\ CompIdle
  /\ GeomIdle
  /\ ClientIdle

\* snapTextEdges(textStart, textDuration, clips, snapThreshold)
SnapTextEdges ==
  /\ snappedEdges = <<>>
  /\ snappedEdges' = <<snapTextEdges(textStart, textDuration, clips, snapThreshold)>>
  /\ UNCHANGED <<notEdgeVars, textStart, textDuration>>

EdgesNext == SnapTextEdges

EdgesSpec == EdgesInit /\ [][EdgesNext]_vars

\* ---------------------------------------------------------------- editor
\* render-button.tsx lines 266-295: the overlay stored for a new position
\* and duration (<<>> is undefined) over n active clips; count is the
\* stored textClipCount
handleTextChange(newPosition, newDuration, n, count) ==
  LET cs == getClipsAsClipArray(n) IN
    IF newDuration # <<>>
      THEN LET r == snapTextEdges(newPosition, newDuration[1], cs, DefaultThreshold)
               maxStart == Max2(0, n * Unit - r.snappedDuration)
               clampedStart == Max2(0, Min2(r.snappedStart, maxStart))
           IN [textStartPosition |-> clampedStart, textClipCount |-> r.snappedDuration]
      ELSE LET snappedPosition == snapToClipBoundaries(newPosition, cs, DefaultThreshold)
               maxPosition == Max2(0, n * Unit - count)
               clampedPosition == Max2(0, Min2(snappedPosition, maxPosition))
           IN [textStartPosition |-> clampedPosition, textClipCount |-> count]

\* draggable-text.tsx lines 90-133: the position and duration handed to
\* onPositionChange for a pointer move of delta, from the props g the
\* listener holds
DragMoveArgs(g, delta) ==
  IF g.isDragging
    THEN [newPosition |-> Max2(0, Min2(g.startPosition + delta,
                                      g.totalClips * Unit - g.duration)),
          newDuration |-> g.duration]
    ELSE IF g.isResizing = "right"
      THEN LET maxDuration == g.totalClips * Unit - g.startPosition IN
             [newPosition |-> g.startPosition,
              newDuration |-> Min2(Max2(Unit, g.duration + delta), maxDuration)]
      ELSE LET newPosition == Max2(0, Max2(0, g.startPosition + delta))
               newDuration == Max2(Unit, g.duration - delta)
           IN IF newDuration < Unit
                THEN [newPosition |-> g.startPosition + g.duration - Unit,
                      newDuration |-> Unit]
                ELSE [newPosition |-> newPosition, newDuration |-> newDuration]

\* Array.prototype.splice(i, 1) and splice(i, 0, x), i counted from 1
RemoveAt(seq, i) == SubSeq(seq, 1, i - 1) \o SubSeq(seq, i + 1, Len(seq))
InsertAt(seq, i, x) == SubSeq(seq, 1, i - 1) \o <<x>> \o SubSeq(seq, i, Len(seq))

\* findIndex(c => c.id === id), counted from 1; 0 when there is none
FindIndex(seq, id) ==
  IF \E i \in 1..Len(seq) : seq[i].id = id
    THEN CHOOSE i \in 1..Len(seq) : seq[i].id = id /\ \A k \in 1..(i - 1) : seq[k].id # id
    ELSE 0

\* Array.prototype.filter(c => c.id !== id)
RECURSIVE FilterOut(_, _)
FilterOut(seq, id) ==
  IF seq = <<>> THEN <<>>
  ELSE LET front == FilterOut(SubSeq(seq, 1, Len(seq) - 1), id)
           x == seq[Len(seq)]
       IN IF x.id # id THEN Append(front, x) ELSE front

\* render-button.tsx lines 225-240, with a text, an animation and the
\* templates present
handleApplyText ==
  /\ ~gesture.isDragging /\ gesture.isResizing = "null"
  /\ isTextActive' = TRUE
  /\ textStartPosition' = 0
  /\ textClipCount' = Min2(2, Len(activeClips)) * Unit
  /\ lastEdit' = [op |-> "apply", id |-> 0]
  /\ UNCHANGED <<activeClips, removedClips, gesture, edits>>
  /\ UNCHANGED notUiVars

\* render-button.tsx lines 244-252
handleResetText ==
  /\ ~gesture.isDragging /\ gesture.isResizing = "null"
  /\ isTextActive
  /\ isTextActive' = FALSE
  /\ textStartPosition' = 0
  /\ textClipCount' = Unit
  /\ lastEdit' = [op |-> "reset", id |-> 0]
  /\ UNCHANGED <<activeClips, removedClips, gesture, edits>>
  /\ UNCHANGED notUiVars

\* draggable-text.tsx lines 50-64; the listeners registered by the effect
\* of lines 149-168 hold the props of this render until the gesture ends
handleDragStart ==
  /\ isTextActive
  /\ ~gesture.isDragging /\ gesture.isResizing = "null"
  /\ gesture' = [isDragging |-> TRUE, isResizing |-> "null",
                 startPosition |-> textStartPosition, duration |-> textClipCount,
                 totalClips |-> Len(activeClips)]
  /\ lastEdit' = [op |-> "start", id |-> 0]
  /\ UNCHANGED <<activeClips, removedClips, isTextActive, textStartPosition,
                 textClipCount, edits>>
  /\ UNCHANGED notUiVars

\* draggable-text.tsx lines 66-82
handleResizeStart(side) ==
  /\ isTextActive
  /\ ~gesture.isDragging /\ gesture.isResizing = "null"
  /\ gesture' = [isDragging |-> FALSE, isResizing |-> side,
                 startPosition |-> textStartPosition, duration |-> textClipCount,
                 totalClips |-> Len(activeClips)]
  /\ lastEdit' = [op |-> "start", id |-> 0]
  /\ UNCHANGED <<activeClips, removedClips, isTextActive, textStartPosition,
                 textClipCount, edits>>
  /\ UNCHANGED notUiVars

\* draggable-text.tsx lines 84-135 and the handleTextChange it calls
handleDragMove(delta) ==
  /\ gesture.isDragging \/ gesture.isResizing # "null"
  /\ edits < MaxEdits
  /\ LET a == DragMoveArgs(gesture, delta)
         stored == handleTextChange(a.newPosition, <<a.newDuration>>,
                                    Len(activeClips), textClipCount)
     IN /\ textStartPosition' = stored.textStartPosition
        /\ textClipCount' = stored.textClipCount
  /\ edits' = edits + 1
  /\ lastEdit' = [op |-> IF gesture.isDragging THEN "drag" ELSE "resize", id |-> 0]
  /\ UNCHANGED <<activeClips, removedClips, isTextActive, gesture>>
  /\ UNCHANGED notUiVars

\* draggable-text.tsx lines 137-146
handleDragEnd ==
  /\ gesture.isDragging \/ gesture.isResizing # "null"
  /\ gesture' = NoGesture
  /\ lastEdit' = [op |-> "end", id |-> 0]
  /\ UNCHANGED <<activeClips, removedClips, isTextActive, textStartPosition,
                 textClipCount, edits>>
  /\ UNCHANGED notUiVars

\* render-button.tsx lines 297-317
handleRemoveClip(id) ==
  /\ ~gesture.isDragging /\ gesture.isResizing = "null"
  /\ edits < MaxEdits
  /\ FindIndex(activeClips, id) > 0
  /\ LET clipIndex == FindIndex(activeClips, id) - 1
         clip == activeClips[clipIndex + 1]
         newActiveClips == FilterOut(activeClips, id)
         newMax == Max2(0, Len(newActiveClips) * Unit - textClipCount)
     IN /\ activeClips' = newActiveClips
        /\ removedClips' = Append(removedClips, clip)
        /\ textStartPosition' =
              IF textStartPosition >= Len(newActiveClips) * Unit - textClipCount
                THEN Min2(textStartPosition, newMax)
                ELSE textStartPosition
        /\ textClipCount' =
              IF /\ clipIndex * Unit >= textStartPosition
                 /\ clipIndex * Unit < textStartPosition + textClipCount
                THEN Max2(Unit, textClipCount - Unit)
                ELSE textClipCount
  /\ edits' = edits + 1
  /\ lastEdit' = [op |-> "remove", id |-> id]
  /\ UNCHANGED <<isTextActive, gesture>>
  /\ UNCHANGED notUiVars

\* render-button.tsx lines 319-326
handleAddClip(id) ==
  /\ ~gesture.isDragging /\ gesture.isResizing = "null"
  /\ edits < MaxEdits
  /\ FindIndex(removedClips, id) > 0
  /\ LET clip == removedClips[FindIndex(removedClips, id)] IN
       /\ removedClips' = FilterOut(removedClips, id)
       /\ activeClips' = Append(activeClips,
                                [id |-> clip.id, startPosition |-> Len(activeClips),
                                 duration |-> 1])
  /\ edits' = edits + 1
  /\ lastEdit' = [op |-> "add", id |-> id]
  /\ UNCHANGED <<isTextActive, textStartPosition, textClipCount, gesture>>
  /\ UNCHANGED notUiVars

\* Variant: a reorder puts the overlay back at the start of the timeline
handleClipDragEnd_ResetText(active, over) ==
  /\ ~gesture.isDragging /\ gesture.isResizing = "null"
  /\ edits < MaxEdits
  /\ FindIndex(activeClips, active) > 0
  /\ FindIndex(activeClips, over) > 0
  /\ active # over
  /\ LET oldIndex == FindIndex(activeClips, active)
         newIndex == FindIndex(activeClips, over)
         movedClip == activeClips[oldIndex]
     IN activeClips' = InsertAt(RemoveAt(activeClips, oldIndex), newIndex, movedClip)
  /\ textStartPosition' = 0
  /\ edits' = edits + 1
  /\ lastEdit' = [op |-> "reorder", id |-> active]
  /\ UNCHANGED <<removedClips, isTextActive, textClipCount, gesture>>
  /\ UNCHANGED notUiVars

\* render-button.tsx lines 332-344: handleDragEnd of the clip list, the
\* clip active dropped on the clip over
handleClipDragEnd(active, over) ==
  /\ ~gesture.isDragging /\ gesture.isResizing = "null"
  /\ edits < MaxEdits
  /\ FindIndex(activeClips, active) > 0
  /\ FindIndex(activeClips, over) > 0
  /\ active # over
  /\ LET oldIndex == FindIndex(activeClips, active)
         newIndex == FindIndex(activeClips, over)
         movedClip == activeClips[oldIndex]
     IN activeClips' = InsertAt(RemoveAt(activeClips, oldIndex), newIndex, movedClip)
  /\ edits' = edits + 1
  /\ lastEdit' = [op |-> "reorder", id |-> active]
  /\ UNCHANGED <<removedClips, isTextActive, textStartPosition, textClipCount, gesture>>
  /\ UNCHANGED notUiVars

EditorInit ==
  /\ ServerInit
  /\ SnapIdle
  /\ EdgesIdle
  /\ UiInit
  /\ CompIdle
  /\ GeomIdle
  /\ ClientIdle

EditorNext ==
  \/ handleApplyText
  \/ handleResetText
  \/ handleDragStart
  \/ \E side \in {"left", "right"} : handleResizeStart(side)
  \/ \E delta \in Deltas : handleDragMove(delta)
  \/ handleDragEnd
  \/ \E id \in 1..MaxSamples : handleRemoveClip(id)
  \/ \E id \in 1..MaxSamples : handleAddClip(id)
  \/ \E active, over \in 1..MaxSamples : handleClipDragEnd(active, over)

EditorSpec == EditorInit /\ [][EditorNext]_vars

\* ---------------------------------------------------------------- comp.tsx
\* comp.tsx line 182 (and index.ts line 66)
fps == 30

\* Math.round(clip.duration * fps) for a duration of q quarter seconds: the
\* product is a multiple of a half, which doubles hold exactly, and a half
\* is rounded up
RoundFrames(q) == (q * fps + 2) \div 4

\* lines 109-117: from and durationInFrames of the Sequence of every clip
RECURSIVE ClipSequences(_)
ClipSequences(cs) ==
  IF cs = <<>> THEN <<>>
  ELSE LET front == ClipSequences(SubSeq(cs, 1, Len(cs) - 1))
           currentFrame == IF front = <<>> THEN 0
                           ELSE front[Len(front)].from + front[Len(front)].durationInFrames
       IN Append(front, [from |-> currentFrame,
                         durationInFrames |-> RoundFrames(cs[Len(cs)])])

\* clips[i] for an index i in fortieths: <<duration>>, or <<>> for undefined
ClipAt(cs, i) ==
  IF i % Unit = 0 /\ (i \div Unit) \in 0..(Len(cs) - 1)
    THEN <<cs[(i \div Unit) + 1]>>
    ELSE <<>>

\* lines 149-151 and 154-156: for (let i = ...; i < to; i++) sum +=
\* Math.round(clips[i].duration * fps); reading duration of undefined throws
RECURSIVE SumLoop(_, _, _, _)
SumLoop(cs, i, to, acc) ==
  IF ~(i < to) THEN acc
  ELSE IF ClipAt(cs, i) = <<>>
    THEN [acc EXCEPT !.threw = TRUE, !.reads = Append(@, i)]
    ELSE SumLoop(cs, i + Unit, to,
                 [acc EXCEPT !.frames = @ + RoundFrames(ClipAt(cs, i)[1]),
                             !.seconds = @ + ClipAt(cs, i)[1],
                             !.reads = Append(@, i)])

\* Variant: the durations are summed and the sum is rounded once
OverlayFrameRange_Aggregate(cs, o) ==
  LET startClipIndex == o.startPosition
      endClipIndex == startClipIndex + o.duration
      none == [threw |-> FALSE, frames |-> 0, seconds |-> 0, reads |-> <<>>]
      first == SumLoop(cs, 0, startClipIndex, none)
      second == SumLoop(cs, startClipIndex, Min2(endClipIndex, Len(cs) * Unit),
                        [none EXCEPT !.reads = first.reads])
  IN IF first.threw \/ second.threw
       THEN [threw |-> TRUE, reads |-> IF first.threw THEN first.reads ELSE second.reads,
             from |-> 0, durationInFrames |-> 0]
       ELSE [threw |-> FALSE, reads |-> second.reads,
             from |-> RoundFrames(first.seconds),
             durationInFrames |-> RoundFrames(second.seconds)]

\* lines 143-156: textStartFrame and textDurationInFrames, and the indices
\* of clips read on the way
OverlayFrameRange(cs, o) ==
  LET startClipIndex == o.startPosition
      endClipIndex == startClipIndex + o.duration
      none == [threw |-> FALSE, frames |-> 0, seconds |-> 0, reads |-> <<>>]
      first == SumLoop(cs, 0, startClipIndex, none)
      second == SumLoop(cs, startClipIndex, Min2(endClipIndex, Len(cs) * Unit),
                        [none EXCEPT !.reads = first.reads])
  IN IF first.threw \/ second.threw
       THEN [threw |-> TRUE, reads |-> IF first.threw THEN first.reads ELSE second.reads,
             from |-> 0, durationInFrames |-> 0]
       ELSE [threw |-> FALSE, reads |-> second.reads,
             from |-> first.frames, durationInFrames |-> second.frames]

\* lines 81-174: the Sequences returned for the clips and for an overlay
\* with a content, or the TypeError thrown
VideoEditorComposition(p) ==
  IF p.textOverlay = <<>>
    THEN [threw |-> FALSE, sequences |-> ClipSequences(p.clips), text |-> <<>>,
          reads |-> <<>>]
    ELSE LET t == OverlayFrameRange(p.clips, p.textOverlay[1]) IN
           IF t.threw
             THEN [threw |-> TRUE, sequences |-> <<>>, text |-> <<>>, reads |-> t.reads]
             ELSE [threw |-> FALSE, sequences |-> ClipSequences(p.clips),
                   text |-> <<[from |-> t.from, durationInFrames |-> t.durationInFrames]>>,
                   reads |-> t.reads]

\* Clip durations in quarter seconds: 5 s, 2.25 s and 1.75 s
ClipSeconds == {4 * SampleSeconds, 9, 7}
CompClipLists == UNION {[1..n -> ClipSeconds] : n \in 0..MaxClips}

\* Overlay starts and durations: every half unit from a unit before 0 to a
\* unit past the longest clip list
OverlayStarts == {k * (Unit \div 2) : k \in (-2)..(2 * (MaxClips + 1))}
OverlayDurations == {k * (Unit \div 2) : k \in 0..(2 * (MaxClips + 1))}

CompInit ==
  /\ ServerInit
  /\ SnapIdle
  /\ EdgesIdle
  /\ UiInit
  /\ props \in [clips : CompClipLists,
                 textOverlay : {<<>>} \cup
                               {<<o>> : o \in [startPosition : OverlayStarts,
                                              duration : OverlayDurations]}]
  /\ rendered = <<>>
  /\ GeomIdle
  /\ ClientIdle

\* Remotion renders the composition with the input props
RenderComposition ==
  /\ rendered = <<>>
  /\ rendered' = <<VideoEditorComposition(props)>>
  /\ UNCHANGED <<notCompVars, props>>

CompNext == RenderComposition

CompSpec == CompInit /\ [][CompNext]_vars

\* ---------------------------------------------------------------- DraggableText geometry
\* draggable-text.tsx line 46: the inset of 15 px
Slack == 15

\* Variant: the width has no lower bound
DraggableTextGeometry_NoMin(t) ==
  [xPosition |-> t.startPosition * (t.clipWidth + t.gap),
   width |-> t.clipWidth * t.duration + t.gap * (t.duration - Unit) - Slack * Unit,
   minWidth |-> (t.clipWidth - Slack) * Unit]

\* draggable-text.tsx lines 44-48, in fortieths of a pixel (startPosition
\* and duration are in fortieths of a clip unit)
DraggableTextGeometry(t) ==
  LET xPosition == t.startPosition * (t.clipWidth + t.gap)
      calculatedWidth == t.clipWidth * t.duration + t.gap * (t.duration - Unit)
                           - Slack * Unit
      minWidth == (t.clipWidth - Slack) * Unit
  IN [xPosition |-> xPosition, width |-> Max2(calculatedWidth, minWidth),
      minWidth |-> minWidth]

\* Overlays the editor can store: start every quarter of a unit, duration
\* the floor 0.1 or a number of quarters; clip widths and gaps in pixels
GeomInit ==
  /\ ServerInit
  /\ SnapIdle
  /\ EdgesIdle
  /\ UiInit
  /\ CompIdle
  /\ ClientIdle
  /\ textProps \in [startPosition : {k * (Unit \div 4) : k \in 0..(4 * MaxStart)},
                     duration : {MinDuration} \cup
                                {k * (Unit \div 4) : k \in 1..(4 * (MaxStart + 1))},
                     clipWidth : {90, 160},
                     gap : {0, 16}]
  /\ geometry = <<>>

\* DraggableText is rendered
RenderDraggableText ==
  /\ geometry = <<>>
  /\ geometry' = <<DraggableTextGeometry(textProps)>>
  /\ UNCHANGED <<notGeomVars, textProps>>

GeomNext == RenderDraggableText

GeomSpec == GeomInit /\ [][GeomNext]_vars

\* ---------------------------------------------------------------- RenderButton
\* renderButton.phase is the position of handleRender and of its
\* EventSource: "idle", "posting" (fetch pending), "listening" (EventSource
\* connecting or open), "closed" (eventSource.close() called), "caught"
\* (the catch block ran).  connections counts the connections the
\* EventSource has asked for, delivered the events of the current one handed
\* to onmessage, link the id whose download link was clicked.

\* render-button.tsx line 98, for props.clips that are not empty
ButtonEnabled ==
  /\ ~renderButton.isRendering
  /\ ~(renderButton.progress > 0 /\ renderButton.progress < 100)

\* The request bodies RenderButton sends: props.clips is an array
ClientBodies == {b \in Bodies : b.hasClips /\ Len(b.clips) > 0}

\* The GET /api/render-progress requests received so far
Opened == Cardinality({s \in Streams : sub[s].opened})

\* The job the server allocated for the pending fetch, if it has
NewJobs == {j \in DOMAIN renderProgress : j > renderButton.renderId}

\* lines 41-52: the click on the button, up to the fetch
handleRender(b) ==
  /\ ButtonEnabled
  /\ renderButton.phase # "posting"
  /\ Requests + 2 <= MaxRequests
  /\ renderButton' = [renderButton EXCEPT !.isRendering = TRUE, !.progress = 0,
                                          !.error = FALSE, !.success = FALSE,
                                          !.phase = "posting", !.body = <<b>>]
  /\ UNCHANGED serverVars
  /\ UNCHANGED notClientVars

\* The server receives the POST of the pending fetch
ClientSubmit(j) ==
  /\ renderButton.phase = "posting"
  /\ NewJobs = {}
  /\ Submit(j, renderButton.body[1])

\* lines 54-59: the response arrives and the EventSource is created
fetchResolves ==
  /\ renderButton.phase = "posting"
  /\ \E j \in NewJobs :
        /\ resp[j] # <<>>
        /\ renderButton' = [renderButton EXCEPT !.renderId = resp[j][1].renderId,
                                                !.phase = "listening",
                                                !.body = <<>>,
                                                !.connections = Opened + 1,
                                                !.delivered = 0,
                                                !.lastMessage = <<>>]
  /\ UNCHANGED serverVars
  /\ UNCHANGED notClientVars

\* lines 87-90: the fetch rejects (the server is not reached), catch block
fetchRejects ==
  /\ renderButton.phase = "posting"
  /\ NewJobs = {}
  /\ renderButton' = [renderButton EXCEPT !.error = TRUE, !.isRendering = FALSE,
                                          !.phase = "caught", !.body = <<>>]
  /\ UNCHANGED serverVars
  /\ UNCHANGED notClientVars

\* The server receives the GET the EventSource has sent
ClientSubscribe(s) ==
  /\ renderButton.phase = "listening"
  /\ s = renderButton.connections
  /\ Subscribe(s, renderButton.renderId)

\* lines 61-85: eventSource.onmessage for the next event of the stream
onmessage ==
  /\ renderButton.phase = "listening"
  /\ renderButton.connections \in Streams
  /\ sub[renderButton.connections].opened
  /\ renderButton.delivered < Len(sub[renderButton.connections].events)
  /\ LET data == sub[renderButton.connections].events[renderButton.delivered + 1] IN
       IF data.done /\ data.progress = 100
         THEN renderButton' =
                [renderButton EXCEPT !.phase = "closed",
                                     !.isDownloading = TRUE,
                                     !.isRendering = FALSE,
                                     !.progress = 100,
                                     !.link = renderButton.renderId,
                                     !.delivered = @ + 1,
                                     !.lastMessage = <<data>>]
         ELSE renderButton' =
                [renderButton EXCEPT !.progress = data.progress,
                                     !.delivered = @ + 1,
                                     !.lastMessage = <<data>>]
  /\ UNCHANGED serverVars
  /\ UNCHANGED notClientVars

\* The server ended the response and the EventSource was not closed: it
\* has no onerror handler and connects again
reconnect ==
  /\ renderButton.phase = "listening"
  /\ renderButton.connections \in Streams
  /\ renderButton.connections < MaxRequests
  /\ sub[renderButton.connections].opened
  /\ sub[renderButton.connections].ended
  /\ renderButton.delivered = Len(sub[renderButton.connections].events)
  /\ renderButton' = [renderButton EXCEPT !.connections = @ + 1, !.delivered = 0]
  /\ UNCHANGED serverVars
  /\ UNCHANGED notClientVars

\* lines 76-79: the timeout set when the download was started
downloadTimeout ==
  /\ renderButton.isDownloading
  /\ renderButton' = [renderButton EXCEPT !.isDownloading = FALSE, !.success = TRUE]
  /\ UNCHANGED serverVars
  /\ UNCHANGED notClientVars

\* lines 30-39: the timeout of the effect on success
successTimeout ==
  /\ renderButton.success
  /\ renderButton' = [renderButton EXCEPT !.success = FALSE]
  /\ UNCHANGED serverVars
  /\ UNCHANGED notClientVars

ClientInit ==
  /\ ServerInit
  /\ SnapIdle
  /\ EdgesIdle
  /\ UiInit
  /\ CompIdle
  /\ GeomIdle
  /\ ClientIdle

\* The button, the server's handling of its job and of its streams
ClientNext ==
  \/ \E b \in ClientBodies : handleRender(b)
  \/ \E j \in JobIds : ClientSubmit(j)
  \/ fetchResolves
  \/ fetchRejects
  \/ \E s \in Streams : ClientSubscribe(s)
  \/ onmessage
  \/ reconnect
  \/ downloadTimeout
  \/ successTimeout
  \/ \E j \in JobIds : Decode(j)
  \/ \E j \in JobIds : BundleResolves(j)
  \/ \E j \in JobIds : SelectResolves(j)
  \/ \E j \in JobIds, f \in Fractions : OnProgress(j, f)
  \/ \E j \in JobIds : WriteOutput(j)
  \/ \E j \in JobIds : RenderResolves(j)
  \/ \E j \in JobIds : AwaitRejects(j)
  \/ \E s \in Streams : Tick(s)

ClientSpec == ClientInit /\ [][ClientNext]_vars

\* Every step that is possible is eventually taken: timers fire, promises
\* settle, requests and events are delivered
ClientFairSpec == ClientSpec /\ WF_vars(ClientNext)

\* ---------------------------------------------------------------- fair runs
\* A step of the handler of job j past an await
Advance(j) ==
  Decode(j) \/ BundleResolves(j) \/ SelectResolves(j) \/ RenderResolves(j) \/ AwaitRejects(j)

\* The handler runs on after each await: every awaited call (bundle,
\* selectComposition, renderMedia) eventually resolves or rejects, and an
\* interval that is not cleared keeps firing every 500 ms.
Fairness ==
  /\ \A j \in JobIds : WF_vars(Advance(j))
  /\ \A s \in Streams : WF_vars(Tick(s))

\* The runs in which every subscriber stays connected and no download is
\* requested.
FairNext ==
  \/ \E j \in JobIds, b \in Bodies : Submit(j, b)
  \/ \E j \in JobIds : Decode(j)
  \/ \E j \in JobIds : BundleResolves(j)
  \/ \E j \in JobIds : SelectResolves(j)
  \/ \E j \in JobIds, f \in Fractions : OnProgress(j, f)
  \/ \E j \in JobIds : WriteOutput(j)
  \/ \E j \in JobIds : RenderResolves(j)
  \/ \E j \in JobIds : AwaitRejects(j)
  \/ \E s \in Streams, id \in JobIds : Subscribe(s, id)
  \/ \E s \in Streams : Tick(s)

FairSpec == Init /\ [][FairNext]_vars /\ Fairness

\* ---------------------------------------------------------------- properties
OkResponse(j) == <<[status |-> 200, renderId |-> j]>>

\* A request whose clips are missing, or whose overlay range lies outside
\* [0, number of clips]
OutOfRange(b) ==
  /\ b.hasClips
  /\ b.textOverlay # <<>>
  /\ \/ b.textOverlay[1].startPosition < 0
     \/ b.textOverlay[1].startPosition + b.textOverlay[1].duration > Len(b.clips)
BadSpec(b) == (~b.hasClips) \/ OutOfRange(b)

C2_Original ==
  \A j \in JobIds :
    (Known(j) /\ ~called[j]) => renderProgress[j] = [progress |-> 0, done |-> FALSE]

\* C2 amended: submit stores {progress 0, done FALSE} under an id that was not
\* in the table and answers the submitter before the renderer is invoked; the
\* record reads {progress 0, done FALSE} until the first progress callback or
\* the settling of the job, whichever comes first.
C2_PendingUntilFirstWrite ==
  /\ last.op = "submit" =>
        /\ last.pre = <<>>
        /\ renderProgress[last.id] = [progress |-> 0, done |-> FALSE]
        /\ pc[last.id] = "responded"
  /\ \A j \in JobIds :
        /\ pc[j] = "idle" => (~Known(j) /\ resp[j] = <<>>)
        /\ pc[j] # "idle" => (Known(j) /\ resp[j] = OkResponse(j))
        /\ (pc[j] \in {"responded", "bundling", "selecting", "rendering"} /\ ~called[j])
              => renderProgress[j] = [progress |-> 0, done |-> FALSE]

\* A subscriber has just read the record of a job whose renderer is running
\* and has not called back yet.
C2_Witness ==
  \E s \in Streams :
    /\ sub[s].opened
    /\ pc[sub[s].id] = "rendering"
    /\ ~called[sub[s].id]
    /\ sub[s].events = <<[progress |-> 0, done |-> FALSE]>>

\* C3 as stated: the catch block leaves the recorded progress unchanged.
C3_Original ==
  last.op = "fail" => renderProgress[last.id].progress = last.pre[1].progress

\* C3 amended: on failure of the renderer the record becomes
\* {progress 0, done TRUE, error "Render failed"}: the progress is reset to 0.
C3_FailureResetsProgress ==
  last.op = "fail" =>
    renderProgress[last.id] = [progress |-> 0, done |-> TRUE, error |-> "Render failed"]

\* The renderer failed after a progress callback had recorded a positive value.
C3_Witness ==
  /\ last.op = "fail"
  /\ last.out = "rendering"
  /\ last.pre[1].progress > 0

\* C4: after renderMedia resolves the record is {progress 100, done TRUE} with
\* no error and the file of the job is complete in rendersDir.
C4_SuccessRecord ==
  \A j \in JobIds :
    pc[j] = "succeeded" =>
      /\ renderProgress[j] = [progress |-> 100, done |-> TRUE]
      /\ rendersDir[j] = "complete"

\* A job went from the initial record through a progress record to success.
C4_Witness ==
  /\ last.op = "success"
  /\ called[last.id]
  /\ renderProgress[last.id].done

\* C5: an error raised at any stage of the handler ends in the record
\* {progress 0, done TRUE, error "Render failed"}, and the response of the
\* submitter is still the 200 {renderId} it was given.
C5_ErrorsBecomeFailed ==
  \A j \in JobIds :
    pc[j] \in {"failed", "crashed"} =>
      /\ pc[j] = "failed"
      /\ renderProgress[j] = [progress |-> 0, done |-> TRUE, error |-> "Render failed"]
      /\ resp[j] = OkResponse(j)

\* One job failed while its body was read and another one while encoding.
C5_Witness ==
  /\ last.op = "fail"
  /\ last.out = "decode"
  /\ \E j \in JobIds : j # last.id /\ pc[j] = "failed" /\ called[j]

\* C6 as stated: a malformed or out-of-range submission is answered with a
\* 4xx status and gets no job record.
C6_Claim ==
  \A j \in JobIds :
    (body[j] # <<>> /\ BadSpec(body[j][1])) =>
      /\ ~Known(j)
      /\ resp[j] # <<>>
      /\ resp[j][1].status \in 400..499

\* C7: in the events written to a stream a done event is the last one, the
\* response is ended exactly when the last event written is a done event, the
\* interval is cleared then, and a writing tick writes the current record.
C7_OneDoneEventLast ==
  /\ [](\A s \in Streams :
         LET ev == sub[s].events IN
           /\ \A i \in 1..Len(ev) : ev[i].done => i = Len(ev)
           /\ sub[s].ended <=> (ev # <<>> /\ ev[Len(ev)].done)
           /\ sub[s].ended => ~sub[s].interval)
  /\ [][\A s \in Streams :
          sub'[s].events # sub[s].events =>
            /\ Known(sub[s].id)
            /\ sub'[s].events = Append(sub[s].events, renderProgress[sub[s].id])]_vars

\* A stream was ended after a progress event followed by the done event.
C7_Witness ==
  \E s \in Streams :
    /\ sub[s].ended
    /\ Len(sub[s].events) >= 2
    /\ ~sub[s].events[1].done

\* C8 as stated: the interval of a subscription whose client has gone away
\* is cancelled.
C8_Claim ==
  \A s \in Streams : (sub[s].opened /\ ~sub[s].connected) => ~sub[s].interval

\* C9 as stated: a download serves a file only for a job that succeeded.
C9_Claim ==
  last.op = "download" =>
    (last.out # "404" => (pc[last.id] = "succeeded" /\ last.out = "complete"))

\* C10: onProgress with fraction f stores {progress round(100 f), done FALSE}
\* whatever the record held before.
C10_LastWriteWins ==
  last.op = "progress" =>
    /\ ~renderProgress[last.id].done
    /\ LET p == renderProgress[last.id].progress IN
         /\ p \in 0..100
         /\ 10 * p - 5 <= last.arg
         /\ last.arg < 10 * p + 5

\* A callback with a lower fraction lowered the recorded progress.
C10_Witness ==
  /\ last.op = "progress"
  /\ last.pre[1].progress > renderProgress[last.id].progress

\* C11: a record becomes done only in the step in which the handler settles
\* (line 107 or the catch block); a progress callback, also one with fraction
\* 1, leaves done = FALSE.
C11_TerminalOnlyBySettle ==
  [][\A j \in JobIds :
        (~Terminal(j) /\ j \in DOMAIN renderProgress' /\ renderProgress'[j].done) =>
          /\ pc'[j] \in {"succeeded", "failed"}
          /\ pc[j] \notin {"succeeded", "failed"}
          /\ last'.op \in {"success", "fail"}
          /\ last'.id = j]_vars

\* The renderer has just reported fraction 1 and the record reads 100, not done.
C11_Witness ==
  /\ last.op = "progress"
  /\ last.arg = 1000
  /\ renderProgress[last.id] = [progress |-> 100, done |-> FALSE]

\* C12: the progress of every record in the table, and of every event
\* written to a stream, is an integer from 0 to 100.
C12_ProgressRange ==
  /\ \A j \in DOMAIN renderProgress :
        renderProgress[j].progress \in Int /\ renderProgress[j].progress \in 0..100
  /\ \A s \in Streams : \A i \in 1..Len(sub[s].events) :
        sub[s].events[i].progress \in 0..100

\* One record is strictly inside the range and a stream has read a 100.
C12_Witness ==
  /\ \E j \in DOMAIN renderProgress :
        renderProgress[j].progress > 0 /\ renderProgress[j].progress < 100
  /\ \E s \in Streams : \E i \in 1..Len(sub[s].events) :
        sub[s].events[i].progress = 100

\* C13: every job in the table eventually has a done record, and every stream
\* opened for a job in the table is eventually written the done event and
\* ended.
C13_EventuallyTerminal ==
  /\ \A j \in JobIds : Known(j) ~> Terminal(j)
  /\ \A s \in Streams :
        (sub[s].opened /\ Known(sub[s].id)) ~>
          (sub[s].ended /\ sub[s].events # <<>> /\ sub[s].events[Len(sub[s].events)].done)

\* A subscriber that stayed connected while the job ran has been sent the
\* done event and its stream is ended.
C13_Witness ==
  \E s \in Streams :
    /\ sub[s].connected
    /\ sub[s].ended
    /\ sub[s].events[1] = [progress |-> 0, done |-> FALSE]
    /\ Terminal(sub[s].id)

\* The records the handler stores, each as a whole
WholeRecords ==
  {[progress |-> 0, done |-> FALSE], [progress |-> 100, done |-> TRUE],
   [progress |-> 0, done |-> TRUE, error |-> "Render failed"]}
  \cup {[progress |-> p, done |-> FALSE] : p \in 0..100}

\* C14: a submit, progress callback or settle of one job leaves the record of
\* every other job as it was, and every record in the table or read by a
\* stream is one the handler stored as a whole.
C14_JobsIndependent ==
  /\ [](/\ \A j \in DOMAIN renderProgress : renderProgress[j] \in WholeRecords
        /\ \A s \in Streams : \A i \in 1..Len(sub[s].events) :
              sub[s].events[i] \in WholeRecords)
  /\ [][\A j, k \in JobIds :
          (j # k /\ last'.op \in {"submit", "progress", "success", "fail"} /\ last'.id = j) =>
            /\ Known(k) <=> k \in DOMAIN renderProgress'
            /\ Known(k) => renderProgress'[k] = renderProgress[k]]_vars

\* Two jobs are rendering with different records and the renderer has just
\* called back for one of them.
C14_Witness ==
  \E j, k \in JobIds :
    /\ j # k
    /\ pc[j] = "rendering" /\ pc[k] = "rendering"
    /\ last.op = "progress" /\ last.id = j
    /\ called[k]
    /\ renderProgress[j] # renderProgress[k]

\* C15: opening a subscription, a tick, a disconnect and a download leave
\* the job table unchanged; the table changes only in a submit, a progress
\* callback or a settle.
C15_RequesterReadsOnly ==
  [][/\ (sub' # sub \/ last'.op \in {"tick", "download"}) => renderProgress' = renderProgress
     /\ renderProgress' # renderProgress =>
           last'.op \in {"submit", "progress", "success", "fail"}]_vars

\* A download has just been answered for a job in the table that a stream
\* has read from.
C15_Witness ==
  /\ last.op = "download"
  /\ Known(last.id)
  /\ \E s \in Streams : sub[s].id = last.id /\ sub[s].events # <<>>

\* C16: a stream opened for an id that is not in the table is written no
\* event and is not ended; its interval stays set.
C16_UnknownIdSilent ==
  \A s \in Streams :
    (sub[s].opened /\ ~Known(sub[s].id)) =>
      (sub[s].events = <<>> /\ ~sub[s].ended /\ sub[s].interval)

\* The interval of a stream has just fired for an id that is not in the table.
C16_Witness ==
  /\ last.op = "tick"
  /\ last.out = "idle"
  /\ sub[last.id].opened
  /\ ~Known(sub[last.id].id)

\* The largest of a non-empty set of integers
Max(S) == CHOOSE x \in S : \A y \in S : y <= x

\* C17: for a non-empty clip list getAllSnapPoints contains 0 and the end of
\* the timeline (the end of the last clip, and the largest clip end, which
\* is its last element), is strictly increasing, and holds every start and
\* end of a clip exactly once, a boundary shared by two clips included.
C17_SnapPointsOrdered ==
  (snapPoints # <<>> /\ clips # <<>>) =>
    LET pts == snapPoints[1]
        Ends == {clips[i].startPosition + clips[i].duration : i \in 1..Len(clips)}
        Starts == {clips[i].startPosition : i \in 1..Len(clips)}
        lastClip == clips[Len(clips)]
    IN /\ \E i \in 1..Len(pts) : pts[i] = 0
       /\ \E i \in 1..Len(pts) : pts[i] = lastClip.startPosition + lastClip.duration
       /\ pts[Len(pts)] = Max(Ends)
       /\ \A i \in 1..(Len(pts) - 1) : pts[i] < pts[i + 1]
       /\ \A b \in Starts \cup Ends : Cardinality({i \in 1..Len(pts) : pts[i] = b}) = 1

\* The snap points of two clips that share a boundary have been computed.
C17_Witness ==
  /\ snapPoints # <<>>
  /\ Len(clips) = 2
  /\ clips[1].startPosition + clips[1].duration = clips[2].startPosition
  /\ Len(snapPoints[1]) = 3

\* C18: for an empty clip list getAllSnapPoints returns exactly [0, 1].
C18_EmptyDefault ==
  (snapPoints # <<>> /\ clips = <<>>) => snapPoints[1] = <<0, Unit>>

\* The snap points of the empty clip list have been computed.
C18_Witness ==
  /\ clips = <<>>
  /\ snapPoints # <<>>
  /\ Len(snapPoints[1]) = 2

\* C19: snapToClipBoundaries returns the position unchanged when every snap
\* point is farther from it than the threshold; otherwise it returns a snap
\* point, and no snap point is strictly closer to the position.
C19_SnapWithinThreshold ==
  snapped # <<>> =>
    LET pts == getAllSnapPoints(clips)
        Dist(q) == Abs(q - position)
    IN IF \A i \in 1..Len(pts) : Dist(pts[i]) > snapThreshold
         THEN snapped[1] = position
         ELSE /\ \E i \in 1..Len(pts) : pts[i] = snapped[1]
              /\ \A i \in 1..Len(pts) : ~(Dist(pts[i]) < Dist(snapped[1]))

\* A position off the boundaries of two clips has been moved to a boundary
\* under the default threshold.
C19_Witness ==
  /\ snapped # <<>>
  /\ Len(clips) = 2
  /\ snapThreshold = DefaultThreshold
  /\ snapped[1] # position

\* C20: snapToClipBoundaries applied to a position it returned, with the
\* same clips and threshold, returns that position.
C20_SnapIdempotent ==
  resnapped # <<>> => resnapped[1] = snapped[1]

\* A position that was moved to a boundary has been snapped again.
C20_Witness ==
  /\ resnapped # <<>>
  /\ snapped[1] # position
  /\ resnapped = snapped
  /\ clips # <<>>

\* C21: snapTextEdges returns snappedDuration >= 0.1 and snappedStart >= 0.
C21_EdgesFloors ==
  snappedEdges # <<>> =>
    /\ snappedEdges[1].snappedDuration >= Unit \div 10
    /\ snappedEdges[1].snappedStart >= 0

\* A range that starts before 0 and ends before its snapped start has been
\* snapped: both floors are what is returned.
C21_Witness ==
  /\ snappedEdges # <<>>
  /\ textStart < 0
  /\ textDuration < 0
  /\ clips # <<>>
  /\ snappedEdges[1] = [snappedStart |-> 0, snappedDuration |-> Unit \div 10]

\* C22: snapTextEdges returns start' = max(0, snap(start)) and duration' =
\* max(0.1, snap(start + duration) - snap(start)), snap being
\* snapToClipBoundaries with the same clips and threshold.
C22_EdgesIndependent ==
  snappedEdges # <<>> =>
    LET snapStart == snapToClipBoundaries(textStart, clips, snapThreshold)
        snapEnd == snapToClipBoundaries(textStart + textDuration, clips, snapThreshold)
    IN /\ snappedEdges[1].snappedStart = Max2(0, snapStart)
       /\ snappedEdges[1].snappedDuration = Max2(Unit \div 10, snapEnd - snapStart)

\* The two edges of a range have been moved to two different boundaries,
\* the start up and the end down.
C22_Witness ==
  /\ snappedEdges # <<>>
  /\ snappedEdges[1].snappedStart > textStart
  /\ textStart + textDuration > snappedEdges[1].snappedStart + snappedEdges[1].snappedDuration
  /\ snappedEdges[1].snappedDuration >= Unit
  /\ \E i \in 1..Len(getAllSnapPoints(clips)) :
        getAllSnapPoints(clips)[i] = snappedEdges[1].snappedStart + snappedEdges[1].snappedDuration

\* C23: over three unit clips at 0, 1, 2 and with threshold 0.3, the range
\* start 0.8, duration 1.4 is returned as start 1, duration 1.
C23_Scenario ==
  (/\ snappedEdges # <<>>
   /\ clips = getClipsAsClipArray(3)
   /\ snapThreshold = (3 * Unit) \div 10
   /\ textStart = (4 * Unit) \div 5
   /\ textDuration = (7 * Unit) \div 5) =>
    /\ getAllSnapPoints(clips) = <<0, Unit, 2 * Unit, 3 * Unit>>
    /\ snappedEdges[1] = [snappedStart |-> Unit, snappedDuration |-> Unit]

\* The range of the scenario has been snapped.
C23_Witness ==
  /\ snappedEdges # <<>>
  /\ Len(clips) = 3
  /\ textStart = (4 * Unit) \div 5
  /\ textDuration = (7 * Unit) \div 5
  /\ snappedEdges[1].snappedStart = Unit

\* The editor's clips are the mounted ones in some order: no clip has been
\* removed or added
MountedClips ==
  /\ removedClips = <<>>
  /\ Len(activeClips) = MaxSamples
  /\ \A i \in 1..Len(activeClips) : activeClips[i].duration = SampleSeconds

\* C24 as stated: after a drag or resize move the stored overlay has
\* 0 <= start <= totalClips - duration and duration >= 1.
C24_Claim ==
  (isTextActive /\ MountedClips /\ lastEdit.op \in {"drag", "resize"}) =>
    /\ 0 <= textStartPosition
    /\ textStartPosition <= Len(activeClips) * Unit - textClipCount
    /\ textClipCount >= Unit

\* C25 as stated: once a gesture has ended the overlay given to
\* RenderButton starts and ends on clip boundaries.
C25_Claim ==
  (isTextActive /\ MountedClips /\ lastEdit.op = "end") =>
    /\ textStartPosition % Unit = 0
    /\ (textStartPosition + textClipCount) % Unit = 0

\* C29 as stated: after a reorder the i-th active clip (counted from 0) has
\* startPosition i.
C29_Claim ==
  lastEdit.op = "reorder" =>
    \A i \in 1..Len(activeClips) : activeClips[i].startPosition = i - 1

\* The clips of a list, as a set
ClipSet(seq) == {seq[i] : i \in 1..Len(seq)}

\* C30: a reorder leaves the overlay's start and duration and whether it is
\* shown unchanged, and the active clips after it are the same clips, each
\* once, in a different order; the removed clips are untouched.
C30_ReorderKeepsOverlay ==
  [][lastEdit'.op = "reorder" =>
       /\ textStartPosition' = textStartPosition
       /\ textClipCount' = textClipCount
       /\ isTextActive' = isTextActive
       /\ removedClips' = removedClips
       /\ Len(activeClips') = Len(activeClips)
       /\ ClipSet(activeClips') = ClipSet(activeClips)
       /\ \A i, k \in 1..Len(activeClips') :
             activeClips'[i].id = activeClips'[k].id => i = k
       /\ activeClips' # activeClips]_vars

\* The clips have just been reordered under an overlay that was moved off
\* the start of the timeline.
C30_Witness ==
  /\ lastEdit.op = "reorder"
  /\ isTextActive
  /\ textStartPosition > 0
  /\ Len(activeClips) >= 2
  /\ activeClips[1].id # 1

\* The sum of Math.round(duration * fps) over the clips of cs at the
\* indices (from 1) in S
RECURSIVE SumFrames(_, _)
SumFrames(cs, S) ==
  IF S = {} THEN 0
  ELSE LET i == CHOOSE x \in S : TRUE IN RoundFrames(cs[i]) + SumFrames(cs, S \ {i})

\* The sum of the durations of cs, in quarter seconds
RECURSIVE SumSeconds(_)
SumSeconds(cs) ==
  IF cs = <<>> THEN 0 ELSE cs[Len(cs)] + SumSeconds(SubSeq(cs, 1, Len(cs) - 1))

\* index.ts lines 65-67: Math.round(totalDuration * fps), the length the
\* server gives the composition it renders
durationInFrames(cs) == RoundFrames(SumSeconds(cs))

C27_Claim ==
  rendered # <<>> =>
    \A k \in 1..Len(rendered[1].reads) :
      /\ rendered[1].reads[k] % Unit = 0
      /\ (rendered[1].reads[k] \div Unit) \in 0..(Len(props.clips) - 1)

C37_RecordsWellFormed ==
  \A j \in DOMAIN renderProgress :
    LET r == renderProgress[j]
    IN /\ "error" \in DOMAIN r => r.done
       /\ (r.done /\ "error" \notin DOMAIN r) => r.progress = 100

\* The table holds a failed record, a succeeded record whose job had
\* reported progress, and no pending one.
C37_Witness ==
  /\ \E j \in DOMAIN renderProgress : "error" \in DOMAIN renderProgress[j]
  /\ \E j \in DOMAIN renderProgress :
        /\ renderProgress[j].done
        /\ "error" \notin DOMAIN renderProgress[j]
        /\ called[j]

\* C38: when the position is at the same distance from its two nearest snap
\* points and that distance is within the threshold, snapToClipBoundaries
\* returns the smaller of the two, the first in the sorted list.
C38_TieTakesSmaller ==
  snapped # <<>> =>
    LET pts == getAllSnapPoints(clips)
        Dist(q) == Abs(q - position)
    IN \A i, k \in 1..Len(pts) :
         (/\ pts[i] < pts[k]
          /\ Dist(pts[i]) = Dist(pts[k])
          /\ Dist(pts[i]) <= snapThreshold
          /\ \A m \in 1..Len(pts) : Dist(pts[m]) >= Dist(pts[i]))
           => snapped[1] = pts[i]

\* A position half a unit from the boundaries on either side of it has been
\* snapped, with a threshold of half a unit, to the boundary below it.
C38_Witness ==
  /\ snapped # <<>>
  /\ snapThreshold = Unit \div 2
  /\ Len(clips) = 2
  /\ position = Unit + Unit \div 2
  /\ snapped[1] = Unit
  /\ \E i \in 1..Len(getAllSnapPoints(clips)) : getAllSnapPoints(clips)[i] = 2 * Unit

\* C32 as stated: the length the server gives the composition,
\* round(sum of the durations * fps), is the frame at which the Sequence of
\* the last clip ends, the sum of round(duration * fps) over the clips.
C32_Claim ==
  (rendered # <<>> /\ ~rendered[1].threw) =>
    LET seqs == rendered[1].sequences
        scheduled == IF seqs = <<>> THEN 0
                     ELSE seqs[Len(seqs)].from + seqs[Len(seqs)].durationInFrames
    IN durationInFrames(props.clips) = scheduled

\* C33 as stated: after a clip was removed and at least one clip remains,
\* the overlay lies inside the timeline: start >= 0 and start + duration
\* <= the number of remaining clips.
C33_Claim ==
  (isTextActive /\ lastEdit.op = "remove" /\ Len(activeClips) >= 1) =>
    /\ textStartPosition >= 0
    /\ textStartPosition + textClipCount <= Len(activeClips) * Unit

\* C35 as stated: after any sequence of remove, add and reorder operations
\* no two active clips have the same startPosition.
C35_Claim ==
  \A i, k \in 1..Len(activeClips) :
    activeClips[i].startPosition = activeClips[k].startPosition => i = k

\* C36 as stated: a drag move (not a resize) leaves the stored duration of
\* the overlay as it was.
C36_Claim ==
  [][lastEdit'.op = "drag" => textClipCount' = textClipCount]_vars

\* C31 as stated: once onmessage has handled an event with done = true, of a
\* succeeded or of a failed job, the EventSource is closed.
C31_Claim ==
  (renderButton.lastMessage # <<>> /\ renderButton.lastMessage[1].done) =>
    renderButton.phase = "closed"

\* The job of the click the button is waiting for
ClientJob(j) ==
  /\ j \in DOMAIN renderProgress
  /\ \/ renderButton.phase = "posting" /\ j \in NewJobs
     \/ renderButton.phase = "listening" /\ j = renderButton.renderId

TypeOK ==
  /\ DOMAIN renderProgress \subseteq JobIds
  /\ \A j \in DOMAIN renderProgress : renderProgress[j].progress \in 0..100
  /\ \A j \in JobIds : pc[j] \in {"idle", "responded", "bundling", "selecting",
                                  "rendering", "succeeded", "failed", "crashed"}
====
